---- MODULE Spec2Model ----
(***************************************************************************)
(* The Hokusei Blueprint Merger (src/merger/cli.js) and the importer that  *)
(* fills its imports/ directory (src/importer/cli.js).                     *)
(*                                                                         *)
(* Spec is the merge core: mergeAll folds the sorted list of import files  *)
(* into the aim map, the known-id sets, the hierarchy pointer, the planner *)
(* list, the reference issues and the errors, and then builds the report   *)
(* and the aggregate.  SpecStrategy is the same fold with or without the   *)
(* documented --strategy option.  SpecCli is the command around it: main,  *)
(* the dry run, writeOutputs, the exit code, and the command run again.    *)
(* SpecScan is listImportJsonFiles over directory and file names as        *)
(* strings, SpecClassify the kind inferred for one document, SpecRender    *)
(* the text of report.md.  SpecImport is the importer: runs of its main    *)
(* over command lines and pasted or piped texts, and the scan of what it   *)
(* saved.                                                                  *)
(*                                                                         *)
(* JSON values are modelled by records of one shape:                       *)
(*   data    = [isNull, version, items, pillars, projects]                 *)
(*   item    = [id, payload]                                               *)
(*   pillar  = [isNull, subs]      sub  = [isNull, micros]                 *)
(*   project = [isNull, paths]     path = [isNull, slices]                 *)
(*   slice   = [pos, neg, includesMicros]                                  *)
(* A field that is absent or not an array is the empty sequence: every     *)
(* array in the code is read behind an Array.isArray guard that turns a    *)
(* non-array into "nothing to iterate".  A value that is not a string is   *)
(* NotAString.  Strings that the code searches (the version tag, the file  *)
(* name) are sequences of tokens; the names the scanner sorts are          *)
(* sequences of characters.                                                *)
(***************************************************************************)
EXTENDS Integers, Sequences, FiniteSets, TLC

VARIABLES files, i, pc, aimIds, microIds, refIssues, errors, aimsMap,
          hierarchy, planners, report, merged, outRoot

\* the process around mergeAll: argv, the clock, the exit code, what the run
\* called and printed, the merges/ tree on disk, and the runs before this one
VARIABLES dryRun, strategy, now, run, exitCode, calls, stdout, disk, past

\* the scanner on its own: the imports/ tree, the list it returns, and the
\* files the loop of mergeAll has taken from that list
VARIABLES tree, out, visited

\* classification on its own: a parsed document with its file name, and the
\* kind inferred for it
VARIABLES doc, docKind

\* the rendering on its own: the text of report.md
VARIABLES md

\* the importer: what parseArgs returned, what was read from the terminal or
\* stdin, and the directories the importer writes under (its --out-dir roots)
VARIABLES args, raw, inbox

\* everything outside mergeAll
env == <<dryRun, strategy, now, run, exitCode, calls, stdout, disk, past,
         tree, out, visited, doc, docKind, md, args, raw, inbox>>

vars == <<files, i, pc, aimIds, microIds, refIssues, errors, aimsMap,
          hierarchy, planners, report, merged, outRoot, env>>

\* ------------------------------------------------------------------ bounds
MaxFiles == 3
MaxBatch == 2
\* clock readings 0..MaxTime, in ticks; a second has TicksPerSecond ticks
MaxTime == 2
TicksPerSecond == 2
\* runs of the command over the same imports/
MaxRuns == 2
\* callouts in the slice of a rendered report
MaxCallouts == 2

\* ------------------------------------------------------------ JSON values
NotAString == "<non-string>"

\* Property names every plain object inherits from Object.prototype: the
\* lookup aimsMap[id] finds them (a function, or the prototype itself) although
\* no aim was stored under them.
ObjectPrototypeKeys ==
  {"constructor", "__proto__", "toString", "toLocaleString", "valueOf",
   "hasOwnProperty", "isPrototypeOf", "propertyIsEnumerable"}

EmptyData ==
  [isNull |-> FALSE, version |-> <<>>, items |-> <<>>, pillars |-> <<>>,
   projects |-> <<>>]

\* JSON null (also the initial value of the hierarchy pointer)
NullData == [EmptyData EXCEPT !.isNull = TRUE]

Item(id, payload) == [id |-> id, payload |-> payload]
Sub(micros) == [isNull |-> FALSE, micros |-> micros]
NullSub == [isNull |-> TRUE, micros |-> <<>>]
Pillar(subs) == [isNull |-> FALSE, subs |-> subs]
NullPillar == [isNull |-> TRUE, subs |-> <<>>]
Slice(pos, neg, mic) == [pos |-> pos, neg |-> neg, includesMicros |-> mic]
Path(slices) == [isNull |-> FALSE, slices |-> slices]
NullPath == [isNull |-> TRUE, slices |-> <<>>]
Project(paths) == [isNull |-> FALSE, paths |-> paths]
NullProject == [isNull |-> TRUE, paths |-> <<>>]

\* ------------------------------------------------------- the import files
AimTableA ==
  [EmptyData EXCEPT !.items =
     <<Item("A1", 1), Item("constructor", 1), Item("A1", 3)>>]

AimTableB ==
  [EmptyData EXCEPT !.version = <<"AimTable", ".v1">>,
                    !.items = <<Item("A2", 2), Item("A1", 2),
                                Item(NotAString, 2)>>]

HierarchyA ==
  [EmptyData EXCEPT !.pillars = <<Pillar(<<Sub(<<"M1">>)>>)>>]

HierarchyB ==
  [EmptyData EXCEPT !.version = <<"Hierarchy", ".v1">>,
                    !.pillars = <<NullPillar,
                                  Pillar(<<NullSub,
                                           Sub(<<"M2", NotAString>>)>>)>>]

PlannerA ==
  [EmptyData EXCEPT !.projects =
     <<Project(<<Path(<<Slice(<<"A1">>, <<"A2", "M1">>,
                              <<"M1", "M2", "A1">>)>>)>>)>>]

\* its second path is null: the walk raises there, after the first path's
\* slice was checked and before the second project is looked at
PlannerB ==
  [EmptyData EXCEPT !.version = <<"PlannerBundle", ".v1">>,
                    !.projects =
     <<Project(<<Path(<<Slice(<<"A1", NotAString>>, <<>>, <<"A1">>)>>),
                 NullPath>>),
       Project(<<Path(<<Slice(<<"A2">>, <<>>, <<"M1">>)>>)>>)>>]

NameAimTable == <<"aimtable", ".json">>
NameHierarchy == <<"hierarchy", ".json">>
NameNotes == <<"notes", ".json">>
NamePlanner == <<"plannerbundle", ".json">>

\* the file names in the order Array.prototype.sort gives their strings
NameOrder == <<NameAimTable, NameHierarchy, NameNotes, NamePlanner>>

NameRank(name) == CHOOSE k \in DOMAIN NameOrder : NameOrder[k] = name

File(batch, name, parses, data) ==
  [batch |-> batch, name |-> name, parses |-> parses, data |-> data]

\* what a file of each name may hold, as <<parses, data>>; parses = FALSE is
\* a file whose text JSON.parse rejects (or that cannot be read)
Contents(name) ==
  CASE name = NameAimTable ->
         <<<<TRUE, AimTableA>>, <<TRUE, AimTableB>>, <<FALSE, EmptyData>>>>
    [] name = NameHierarchy ->
         <<<<TRUE, HierarchyA>>, <<TRUE, HierarchyB>>>>
    [] name = NameNotes ->
         <<<<TRUE, EmptyData>>, <<TRUE, AimTableB>>, <<TRUE, HierarchyB>>>>
    [] name = NamePlanner ->
         <<<<TRUE, PlannerA>>, <<TRUE, PlannerB>>, <<TRUE, NullData>>>>

\* the paths imports/<batch>/<name> a scan may find
Paths ==
  {[batch |-> b, name |-> NameOrder[k]] : b \in 1..MaxBatch, k \in DOMAIN NameOrder}

\* imports/<batch>/<name> compared as listImportJsonFiles' sort compares them
PathLess(f, g) ==
  \/ f.batch < g.batch
  \/ f.batch = g.batch /\ NameRank(f.name) < NameRank(g.name)

\* the n-th path of the set found, in ascending order
NthPath(found, n) ==
  CHOOSE t \in found : Cardinality({u \in found : PathLess(u, t)}) = n - 1

\* the sorted list of the files found, each with the content chosen for it
Sorted(found, choice) ==
  [n \in 1..Cardinality(found) |->
     LET t == NthPath(found, n)
     IN File(t.batch, t.name, Contents(t.name)[choice[t]][1],
             Contents(t.name)[choice[t]][2])]

\* the sets of paths a scan may find, and the contents their files may have
Scans == {x \in SUBSET Paths : Cardinality(x) <= MaxFiles}

Choices(found) ==
  {c \in [found -> 1..Len(NameOrder)] :
     \A t \in found : c[t] <= Len(Contents(t.name))}

\* ------------------------------------------------------------ small helpers
ToLower(tok) ==
  CASE tok = "AimTable" -> "aimtable"
    [] tok = "Hierarchy" -> "hierarchy"
    [] tok = "PlannerBundle" -> "plannerbundle"
    [] OTHER -> tok

\* String.prototype.includes on the lower-cased token sequence
Includes(str, kw) == \E k \in DOMAIN str : ToLower(str[k]) = kw

\* a path as the messages print it: path.relative keeps the batch directory,
\* path.basename drops it (dir = 0)
RelPath(f) == [dir |-> f.batch, name |-> f.name]
BaseName(f) == [dir |-> 0, name |-> f.name]

kindFromFilename(f) ==
  IF Includes(BaseName(f).name, "aimtable") THEN "aimtable"
  ELSE IF Includes(BaseName(f).name, "hierarchy") THEN "hierarchy"
  ELSE IF Includes(BaseName(f).name, "plannerbundle") THEN "plannerbundle"
  ELSE "unknown"

Version(f) == IF f.data.isNull THEN <<>> ELSE f.data.version

\* the version tag is not looked at: the file name alone decides
inferredKind_FileNameOnly(f) == kindFromFilename(f)

inferredKind(f) ==
  IF Includes(Version(f), "aimtable") THEN "aimtable"
  ELSE IF Includes(Version(f), "hierarchy") THEN "hierarchy"
  ELSE IF Includes(Version(f), "plannerbundle") THEN "plannerbundle"
  ELSE kindFromFilename(f)

\* error strings: the message tag and the file it names
ParseError(f) == [tag |-> "Failed to parse", file |-> RelPath(f)]
SkippedError(f) == [tag |-> "Skipped unrecognized import", file |-> RelPath(f)]
CrashError(f) == [tag |-> "Ref-check crashed on", file |-> BaseName(f)]

\* ------------------------------------------------------------- readJson
\* a reader that reports no error for a file it could not parse
readJson_NoError(f) == [ok |-> TRUE, data |-> NullData, err |-> ParseError(f)]

\* [data, err]: err is null (ok = TRUE) or the message
readJson(f) ==
  IF f.parses THEN [ok |-> TRUE, data |-> f.data, err |-> ParseError(f)]
  ELSE [ok |-> FALSE, data |-> NullData, err |-> ParseError(f)]

\* ------------------------------------------------------- aimtable branch
\* aimsMap is the plain object {} as the sequence of its own values in
\* insertion order (Object.values; no id of the model is an integer index).
\* aimsMap[id] is truthy for an own entry (an item is an object) and for a
\* name inherited from Object.prototype.
Truthy(map, id) ==
  \/ \E n \in DOMAIN map : map[n].id = id
  \/ id \in ObjectPrototypeKeys

\* if (!aimsMap[item.id]) aimsMap[item.id] = item;
StoreAim(map, item) ==
  IF ~Truthy(map, item.id) THEN Append(map, item) ELSE map

\* aimIds.add(item.id);
AddAimId(ids, item) == ids \cup {item.id}

\* aimIds.add moved inside the if: only a stored item makes its id known
AimStep_AddWhenStored(map, ids, item) ==
  [aimsMap |-> StoreAim(map, item),
   aimIds |-> IF ~Truthy(map, item.id) THEN AddAimId(ids, item) ELSE ids]

\* the body of the loop over data.items, for an item with a string id
AimStep(map, ids, item) ==
  [aimsMap |-> StoreAim(map, item), aimIds |-> AddAimId(ids, item)]

RECURSIVE CollectAims(_, _, _, _)
CollectAims(items, k, map, ids) ==
  IF k > Len(items) THEN [aimsMap |-> map, aimIds |-> ids]
  ELSE IF items[k].id # NotAString
       THEN LET r == AimStep(map, ids, items[k])
            IN CollectAims(items, k + 1, r.aimsMap, r.aimIds)
       ELSE CollectAims(items, k + 1, map, ids)

Items(data) == IF data.isNull THEN <<>> ELSE data.items

\* ------------------------------------------------------ hierarchy branch
MicrosOfSub(sub) ==
  IF sub.isNull THEN {}
  ELSE {sub.micros[m] : m \in DOMAIN sub.micros} \ {NotAString}

MicrosOfPillar(pillar) ==
  IF pillar.isNull THEN {}
  ELSE UNION {MicrosOfSub(pillar.subs[s]) : s \in DOMAIN pillar.subs}

CollectMicros(data) ==
  IF data.isNull THEN {}
  ELSE UNION {MicrosOfPillar(data.pillars[p]) : p \in DOMAIN data.pillars}

\* a known-micro set that follows the hierarchy pointer
AddMicroIds_LatestOnly(ids, data) == CollectMicros(data)

\* microIds.add(micro.id) for every micro of the document
AddMicroIds(ids, data) == ids \cup CollectMicros(data)

\* a hierarchy pointer that is set once and kept
KeepHierarchy_FirstWins(old, data) == IF old = NullData THEN data ELSE old

\* hierarchy = data;
KeepHierarchy(old, data) == data

\* -------------------------------------------------- plannerbundle branch
\* indices are the 0-based forEach indices; no project, path or slice of the
\* model has a name, so the labels are the "#<index>" fall-backs
Issue(type, id, f, pIdx, pathIdx, sIdx, idx) ==
  [type |-> type, id |-> id, file |-> BaseName(f), project |-> pIdx,
   path |-> pathIdx, slice |-> sIdx, index |-> idx]

\* a check that stops at the first unknown callout of a slice
CalloutIssues_FirstOnly(cos, k, f, pIdx, pathIdx, sIdx, known) ==
  LET bad == {c \in k..Len(cos) : cos[c] # NotAString /\ cos[c] \notin known}
  IN IF bad = {} THEN <<>>
     ELSE LET c == CHOOSE x \in bad : \A y \in bad : x <= y
          IN <<Issue("aimId-not-found", cos[c], f, pIdx, pathIdx, sIdx, c - 1)>>

RECURSIVE CalloutIssues(_, _, _, _, _, _, _)
CalloutIssues(cos, k, f, pIdx, pathIdx, sIdx, known) ==
  IF k > Len(cos) THEN <<>>
  ELSE (IF cos[k] # NotAString /\ cos[k] \notin known
        THEN <<Issue("aimId-not-found", cos[k], f, pIdx, pathIdx, sIdx, k - 1)>>
        ELSE <<>>)
       \o CalloutIssues(cos, k + 1, f, pIdx, pathIdx, sIdx, known)

RECURSIVE MicroIssues(_, _, _, _, _, _, _)
MicroIssues(mids, k, f, pIdx, pathIdx, sIdx, known) ==
  IF k > Len(mids) THEN <<>>
  ELSE (IF mids[k] # NotAString /\ mids[k] \notin known
        THEN <<Issue("microId-not-found", mids[k], f, pIdx, pathIdx, sIdx, k - 1)>>
        ELSE <<>>)
       \o MicroIssues(mids, k + 1, f, pIdx, pathIdx, sIdx, known)

\* micro references looked up in one id set shared with the aims
SliceIssues_SharedIds(sl, f, pIdx, pathIdx, sIdx, aims, micros) ==
  CalloutIssues(sl.pos \o sl.neg, 1, f, pIdx, pathIdx, sIdx, aims)
  \o MicroIssues(sl.includesMicros, 1, f, pIdx, pathIdx, sIdx,
                 aims \cup micros)

\* one slice: the callouts [...pos, ...neg], then dod.includesMicros
SliceIssues(sl, f, pIdx, pathIdx, sIdx, aims, micros) ==
  CalloutIssues(sl.pos \o sl.neg, 1, f, pIdx, pathIdx, sIdx, aims)
  \o MicroIssues(sl.includesMicros, 1, f, pIdx, pathIdx, sIdx, micros)

RECURSIVE WalkSlices(_, _, _, _, _, _, _)
WalkSlices(slices, k, f, pIdx, pathIdx, aims, micros) ==
  IF k > Len(slices) THEN <<>>
  ELSE SliceIssues(slices[k], f, pIdx, pathIdx, k - 1, aims, micros)
       \o WalkSlices(slices, k + 1, f, pIdx, pathIdx, aims, micros)

\* pth.slices of a null path raises a TypeError: the walk ends there with
\* the issues pushed so far
RECURSIVE WalkPaths(_, _, _, _, _, _)
WalkPaths(paths, k, f, pIdx, aims, micros) ==
  IF k > Len(paths) THEN [issues |-> <<>>, crashed |-> FALSE]
  ELSE IF paths[k].isNull THEN [issues |-> <<>>, crashed |-> TRUE]
  ELSE LET here == WalkSlices(paths[k].slices, 1, f, pIdx, k - 1, aims, micros)
           rest == WalkPaths(paths, k + 1, f, pIdx, aims, micros)
       IN [issues |-> here \o rest.issues, crashed |-> rest.crashed]

\* proj.paths of a null project raises likewise
RECURSIVE WalkProjects(_, _, _, _, _)
WalkProjects(projects, k, f, aims, micros) ==
  IF k > Len(projects) THEN [issues |-> <<>>, crashed |-> FALSE]
  ELSE IF projects[k].isNull THEN [issues |-> <<>>, crashed |-> TRUE]
  ELSE LET here == WalkPaths(projects[k].paths, 1, f, k - 1, aims, micros)
       IN IF here.crashed THEN here
          ELSE LET rest == WalkProjects(projects, k + 1, f, aims, micros)
               IN [issues |-> here.issues \o rest.issues,
                   crashed |-> rest.crashed]

\* the try block: data.projects of JSON null raises at once
RefCheck(f, aims, micros) ==
  IF f.data.isNull THEN [issues |-> <<>>, crashed |-> TRUE]
  ELSE WalkProjects(f.data.projects, 1, f, aims, micros)

\* planners.push({ source: path.basename(file), ...data });
PlannerEntry(f) == [source |-> BaseName(f), data |-> f.data]

\* one bundle per source name: a winner selection among the planners
PushPlanner_OnePerSource(pl, f) ==
  IF \E n \in DOMAIN pl : pl[n].source = BaseName(f) THEN pl
  ELSE Append(pl, PlannerEntry(f))

PushPlanner(pl, f) == Append(pl, PlannerEntry(f))

\* an empty catch block
CatchCrash_Silent(errs, f, crashed) == errs

\* catch (e) { errors.push(`Ref-check crashed on ...`) }
CatchCrash(errs, f, crashed) ==
  IF crashed THEN Append(errs, CrashError(f)) ELSE errs

\* --------------------------------------------------------------- finalize
\* a second pass at the end: issues whose id became known are dropped
Report_Revalidated(fs, pl, aims, micros, issues, errs) ==
  LET open == SelectSeq(issues,
                LAMBDA x : IF x.type = "aimId-not-found" THEN x.id \notin aims
                           ELSE x.id \notin micros)
  IN [version |-> "blueprint.merge.report.v1",
      counts |-> [importsTotal |-> Len(fs),
                  plannersTotal |-> Len(pl),
                  plannersValid |-> Len(pl),
                  aimIds |-> Cardinality(aims),
                  microIds |-> Cardinality(micros),
                  refIssues |-> Len(open)],
      errors |-> errs,
      invalidPlanners |-> <<>>,
      refIssues |-> open]

Report(fs, pl, aims, micros, issues, errs) ==
  [version |-> "blueprint.merge.report.v1",
   counts |-> [importsTotal |-> Len(fs),
               plannersTotal |-> Len(pl),
               plannersValid |-> Len(pl),
               aimIds |-> Cardinality(aims),
               microIds |-> Cardinality(micros),
               refIssues |-> Len(issues)],
   errors |-> errs,
   invalidPlanners |-> <<>>,
   refIssues |-> issues]

Merged(fs, map, h, pl) ==
  [version |-> "blueprint.merge.v1",
   sources |-> [k \in DOMAIN fs |-> RelPath(fs[k])],
   aims |-> map,
   hierarchy |-> h,
   planners |-> pl]

NoOutput == [version |-> "none"]

\* new Date().toISOString(): the instant as its whole seconds and the
\* fraction of the second behind the '.'
toISOString(t) ==
  [seconds |-> t \div TicksPerSecond, fraction |-> t % TicksPerSecond]

\* d.toISOString().replace(/\.\d+Z$/, 'Z').replace(/[:-]/g, ''): the fraction
\* is cut off, the seconds stay
isoStampForDir(t) == toISOString(t).seconds

\* path.join(process.cwd(), 'merges', timestamp)
OutRoot(t) == <<"merges", isoStampForDir(t)>>

NoOutRoot == <<>>

\* what the process is before main has done anything
NoProcess ==
  /\ now = 0
  /\ run = 1
  /\ exitCode = 0
  /\ calls = {}
  /\ stdout = <<>>
  /\ disk = [dirs |-> {}, files |-> [p \in {} |-> NoOutput]]
  /\ past = <<>>

NoScan == tree = [root |-> FALSE, entries |-> {}] /\ out = <<>> /\ visited = <<>>

NoClassify ==
  /\ doc = [batch |-> 1, name |-> <<>>, parses |-> TRUE, data |-> EmptyData]
  /\ docKind = "unknown"

NoRender == md = <<>>

\* no importer has run: nothing parsed from argv, nothing read, nothing saved
NoImporter ==
  /\ args = [help |-> FALSE, mode |-> "paste", type |-> "<null>", outDir |-> "imports"]
  /\ raw = [read |-> FALSE]
  /\ inbox = [dirs |-> {}, files |-> [p \in {} |-> NoOutput]]

\* const aimIds = new Set(), ... : the state of mergeAll is local to the call
MergeLocals ==
  /\ i = 1
  /\ aimIds = {}
  /\ microIds = {}
  /\ refIssues = <<>>
  /\ errors = <<>>
  /\ aimsMap = <<>>
  /\ hierarchy = NullData
  /\ planners = <<>>
  /\ report = NoOutput
  /\ merged = NoOutput
  /\ outRoot = NoOutRoot

\* ------------------------------------------------------------- mergeAll
\* files is a list listImportJsonFiles can return: distinct paths, ascending
Init ==
  /\ \E found \in Scans : \E choice \in Choices(found) :
       files = Sorted(found, choice)
  /\ pc = "fold"
  /\ MergeLocals
  /\ dryRun = FALSE
  /\ strategy = "default"
  /\ NoProcess
  /\ NoScan
  /\ NoClassify
  /\ NoRender
  /\ NoImporter

InFold == pc = "fold" /\ i <= Len(files)

\* if (err) { errors.push(err); continue; }
IngestUnparsed ==
  /\ InFold
  /\ ~readJson(files[i]).ok
  /\ errors' = Append(errors, readJson(files[i]).err)
  /\ i' = i + 1
  /\ UNCHANGED <<files, pc, aimIds, microIds, refIssues, aimsMap, hierarchy,
                 planners, report, merged, outRoot, env>>

IngestAimTable ==
  /\ InFold
  /\ readJson(files[i]).ok
  /\ inferredKind(files[i]) = "aimtable"
  /\ LET r == CollectAims(Items(readJson(files[i]).data), 1, aimsMap, aimIds)
     IN /\ aimsMap' = r.aimsMap
        /\ aimIds' = r.aimIds
  /\ i' = i + 1
  /\ UNCHANGED <<files, pc, microIds, refIssues, errors, hierarchy, planners,
                 report, merged, outRoot, env>>

IngestHierarchy ==
  /\ InFold
  /\ readJson(files[i]).ok
  /\ inferredKind(files[i]) = "hierarchy"
  /\ hierarchy' = KeepHierarchy(hierarchy, readJson(files[i]).data)
  /\ microIds' = AddMicroIds(microIds, readJson(files[i]).data)
  /\ i' = i + 1
  /\ UNCHANGED <<files, pc, aimIds, refIssues, errors, aimsMap, planners,
                 report, merged, outRoot, env>>

IngestPlannerBundle ==
  /\ InFold
  /\ readJson(files[i]).ok
  /\ inferredKind(files[i]) = "plannerbundle"
  /\ planners' = PushPlanner(planners, files[i])
  /\ LET r == RefCheck(files[i], aimIds, microIds)
     IN /\ refIssues' = refIssues \o r.issues
        /\ errors' = CatchCrash(errors, files[i], r.crashed)
  /\ i' = i + 1
  /\ UNCHANGED <<files, pc, aimIds, microIds, aimsMap, hierarchy, report,
                 merged, outRoot, env>>

IngestUnrecognized ==
  /\ InFold
  /\ readJson(files[i]).ok
  /\ inferredKind(files[i]) = "unknown"
  /\ errors' = Append(errors, SkippedError(files[i]))
  /\ i' = i + 1
  /\ UNCHANGED <<files, pc, aimIds, microIds, refIssues, aimsMap, hierarchy,
                 planners, report, merged, outRoot, env>>

\* after the loop: build the report and the aggregate and return them
Finalize ==
  /\ pc = "fold"
  /\ i > Len(files)
  /\ outRoot' = OutRoot(now)
  /\ report' = Report(files, planners, aimIds, microIds, refIssues, errors)
                  @@ [mergedAt |-> toISOString(now)]
  /\ merged' = Merged(files, aimsMap, hierarchy, planners)
                  @@ [mergedAt |-> toISOString(now)]
  /\ pc' = "done"
  /\ UNCHANGED <<files, i, aimIds, microIds, refIssues, errors, aimsMap,
                 hierarchy, planners, env>>

Next ==
  \/ IngestUnparsed
  \/ IngestAimTable
  \/ IngestHierarchy
  \/ IngestPlannerBundle
  \/ IngestUnrecognized
  \/ Finalize

Spec == Init /\ [][Next]_vars

\* --------------------------------------------------------------- strategy
\* README: "Use --strategy first-wins to prefer oldest."  The option is on
\* the command line of the run or it is not; mergeAll is the same function
\* under both.
Strategies == {"default", "first-wins"}

InitStrategy ==
  /\ \E found \in Scans : \E choice \in Choices(found) :
       files = Sorted(found, choice)
  /\ pc = "fold"
  /\ MergeLocals
  /\ dryRun = FALSE
  /\ strategy \in Strategies
  /\ NoProcess
  /\ NoScan
  /\ NoClassify
  /\ NoRender
  /\ NoImporter

SpecStrategy == InitStrategy /\ [][Next]_vars

\* ------------------------------------------------------------------- main
\* The command: main scans imports/, stops when nothing was found, calls
\* mergeAll, and prints the report (--dry-run) or calls writeOutputs.  The
\* command may be run again over the same imports/; every run reads the
\* clock once it has folded its files.

\* the state of mergeAll declared at module level: a call starts from what
\* the call before it left
Fresh_KeptAcrossCalls(old, initial) == old

\* const x = <initial> inside mergeAll: every call starts from the initial value
Fresh(old, initial) == initial

\* the files of one batch: what the command does with its result does not
\* depend on the batch directory a file is in
CliScans == {x \in Scans : \A t \in x : t.batch = 1}

Artifact(dir, name) == [dir |-> dir, name |-> name]

\* a write that never reaches the disk
WriteFile_Dropped(fs, p, content) == fs

\* fs.writeFileSync: the file is created, or its content replaced
WriteFile(fs, p, content) ==
  [q \in DOMAIN fs \cup {p} |-> IF q = p THEN content ELSE fs[q]]

\* fs.mkdirSync(dir, { recursive: true }): the directory and its parents
\* exist afterwards; a directory that is already there is not an error
MkdirRecursive(dirs, dir) == dirs \cup {<<dir[1]>>, dir}

InitCli ==
  /\ \E found \in CliScans : \E choice \in Choices(found) :
       files = Sorted(found, choice)
  /\ pc = "main"
  /\ MergeLocals
  /\ dryRun \in BOOLEAN
  /\ strategy = "default"
  /\ NoProcess
  /\ NoScan
  /\ NoClassify
  /\ NoRender
  /\ NoImporter

\* time passes before a run reads the clock
Tick ==
  /\ pc = "main"
  /\ now < MaxTime
  /\ now' = now + 1
  /\ UNCHANGED <<files, i, pc, aimIds, microIds, refIssues, errors, aimsMap,
                 hierarchy, planners, report, merged, outRoot, dryRun,
                 strategy, run, exitCode, calls, stdout, disk, past, tree,
                 out, visited, doc, docKind, md,
                 args, raw, inbox>>

\* process.exitCode = 1 where no imports were found
NoImportsExitCode == 1

\* a main that never takes the early return
NoImports_Never(fs) == FALSE

\* files.length === 0
NoImports(fs) == Len(fs) = 0

\* if (files.length === 0) { console.error(...); process.exitCode = 1; return; }
MainNoInputs ==
  /\ pc = "main"
  /\ NoImports(files)
  /\ exitCode' = NoImportsExitCode
  /\ stdout' = Append(stdout, [stream |-> "stderr", line |-> "No imports found",
                               value |-> NoOutput])
  /\ pc' = "exit"
  /\ UNCHANGED <<files, i, aimIds, microIds, refIssues, errors, aimsMap,
                 hierarchy, planners, report, merged, outRoot, dryRun,
                 strategy, now, run, calls, disk, past, tree, out, visited,
                 doc, docKind, md,
                 args, raw, inbox>>

\* const result = mergeAll(files): the call begins
MainMerge ==
  /\ pc = "main"
  /\ ~NoImports(files)
  /\ calls' = calls \cup {"mergeAll"}
  /\ i' = 1
  /\ aimIds' = Fresh(aimIds, {})
  /\ microIds' = Fresh(microIds, {})
  /\ refIssues' = Fresh(refIssues, <<>>)
  /\ errors' = Fresh(errors, <<>>)
  /\ aimsMap' = Fresh(aimsMap, <<>>)
  /\ hierarchy' = Fresh(hierarchy, NullData)
  /\ planners' = Fresh(planners, <<>>)
  /\ pc' = "fold"
  /\ UNCHANGED <<files, report, merged, outRoot, dryRun, strategy, now, run,
                 exitCode, stdout, disk, past, tree, out, visited, doc,
                 docKind, md,
                 args, raw, inbox>>

\* ---- report.md
Line(text, arg) == [text |-> text, arg |-> arg]

\* the empty string among the lines
EmptyLine == Line("", <<>>)

\* ri.at: the place of the slice, or of the entry of its includesMicros
At(ri) ==
  IF ri.type = "aimId-not-found" THEN <<ri.project, ri.path, ri.slice>>
  ELSE <<ri.project, ri.path, ri.slice, ri.index>>

NoSuffix == [label |-> "", id |-> ""]

\* ri.aimId ? ` (aimId: ...)` : ri.microId ? ` (microId: ...)` : ''
\* an issue has the field of its own type only, and a string is truthy
\* unless it is empty
Suffix(ri) ==
  IF ri.type = "aimId-not-found" /\ ri.id # ""
    THEN [label |-> "aimId", id |-> ri.id]
  ELSE IF ri.type = "microId-not-found" /\ ri.id # ""
    THEN [label |-> "microId", id |-> ri.id]
  ELSE NoSuffix

IssueLine(ri) ==
  Line("- [type] file -> at",
       [type |-> ri.type, file |-> ri.file, at |-> At(ri),
        suffix |-> Suffix(ri)])

\* the array of lines before .filter(Boolean)
MdLines(r) ==
  <<Line("# Hokusei Blueprint - Merge Report", <<>>),
    EmptyLine,
    Line("**Merged at:**", r.mergedAt),
    EmptyLine,
    Line("## Counts", <<>>),
    Line("- Imports:", r.counts.importsTotal),
    Line("- Planner bundles:", <<r.counts.plannersTotal,
                                 r.counts.plannersValid>>),
    Line("- Aim IDs:", r.counts.aimIds),
    Line("- Micro IDs:", r.counts.microIds),
    Line("- Reference issues:", r.counts.refIssues),
    EmptyLine,
    IF Len(r.errors) # 0 THEN Line("## Errors", <<>>) ELSE EmptyLine>>
  \o [n \in DOMAIN r.errors |-> Line("- error", r.errors[n])]
  \o <<EmptyLine,
       IF Len(r.refIssues) # 0 THEN Line("## Reference issues", <<>>)
       ELSE EmptyLine>>
  \o [n \in DOMAIN r.refIssues |-> IssueLine(r.refIssues[n])]
  \o <<EmptyLine>>

\* .filter(Boolean).join('\n'): every line that is the empty string is
\* dropped, the rest is joined with newlines
ReportMd(r) == SelectSeq(MdLines(r), LAMBDA l : l.text # "")

\* JSON.stringify(value, null, 2): the text of the value
JSONstringify(value) == [json |-> value]

Printed(line, value) == [stream |-> "stdout", line |-> line, value |-> value]

\* if (dryRun) { console.log(...); console.log(JSON.stringify(result.report)); return; }
MainDryRun ==
  /\ pc = "done"
  /\ dryRun
  /\ stdout' = stdout \o <<Printed("- Dry run -", NoOutput),
                            Printed("report", JSONstringify(report))>>
  /\ pc' = "exit"
  /\ UNCHANGED <<files, i, aimIds, microIds, refIssues, errors, aimsMap,
                 hierarchy, planners, report, merged, outRoot, dryRun,
                 strategy, now, run, exitCode, calls, disk, past, tree, out,
                 visited, doc, docKind, md,
                 args, raw, inbox>>

\* the three files of writeOutputs, each with the run that wrote it
Written(fs, dir, r, m, text) ==
  WriteFile(
    WriteFile(
      WriteFile(fs, Artifact(dir, "blueprint.merge.json"),
                [run |-> run, content |-> JSONstringify(m)]),
      Artifact(dir, "blueprint.merge.report.json"),
      [run |-> run, content |-> JSONstringify(r)]),
    Artifact(dir, "report.md"),
    [run |-> run, content |-> text])

\* const paths = writeOutputs(result.outRoot, result); console.log(...)
MainWrite ==
  /\ pc = "done"
  /\ ~dryRun
  /\ calls' = calls \cup {"writeOutputs"}
  /\ md' = ReportMd(report)
  /\ disk' = [dirs |-> MkdirRecursive(disk.dirs, outRoot),
              files |-> Written(disk.files, outRoot, report, merged,
                                ReportMd(report))]
  /\ stdout' = stdout \o <<Printed("Merge complete", NoOutput),
                            Printed("->", Artifact(outRoot, "blueprint.merge.json")),
                            Printed("->", Artifact(outRoot, "blueprint.merge.report.json")),
                            Printed("->", Artifact(outRoot, "report.md"))>>
  /\ pc' = "exit"
  /\ UNCHANGED <<files, i, aimIds, microIds, refIssues, errors, aimsMap,
                 hierarchy, planners, report, merged, outRoot, dryRun,
                 strategy, now, run, exitCode, past, tree, out, visited, doc,
                 docKind, args, raw, inbox>>

\* what a finished run leaves to compare later runs with
RunRecord ==
  [dryRun |-> dryRun, exitCode |-> exitCode, calls |-> calls,
   report |-> report, merged |-> merged, outRoot |-> outRoot,
   stdout |-> stdout]

\* the command is run again, with or without --dry-run, over the same imports/
NextRun ==
  /\ pc = "exit"
  /\ run < MaxRuns
  /\ past' = Append(past, RunRecord)
  /\ run' = run + 1
  /\ dryRun' \in BOOLEAN
  /\ exitCode' = 0
  /\ calls' = {}
  /\ stdout' = <<>>
  /\ report' = NoOutput
  /\ merged' = NoOutput
  /\ outRoot' = NoOutRoot
  /\ pc' = "main"
  /\ UNCHANGED <<files, i, aimIds, microIds, refIssues, errors, aimsMap,
                 hierarchy, planners, strategy, now, disk, tree, out, visited,
                 doc, docKind, md,
                 args, raw, inbox>>

NextCli ==
  \/ Tick
  \/ MainNoInputs
  \/ MainMerge
  \/ IngestUnparsed
  \/ IngestAimTable
  \/ IngestHierarchy
  \/ IngestPlannerBundle
  \/ IngestUnrecognized
  \/ Finalize
  \/ MainDryRun
  \/ MainWrite
  \/ NextRun

SpecCli == InitCli /\ [][NextCli]_vars

(***************************************************************************)
(* Properties.  The definitions below read the list of files and say what  *)
(* the fold has to have made of it.                                        *)
(***************************************************************************)
KindIs(k, kind) == files[k].parses /\ inferredKind(files[k]) = kind

Count(seq, x) == Cardinality({n \in DOMAIN seq : seq[n] = x})

\* ---- aims
\* <<k, j>>: item j of the AimTable document at position k carries id
Carriers(id) ==
  UNION {{<<k, j>> : j \in {x \in DOMAIN Items(files[k].data) :
                              Items(files[k].data)[x].id = id}} :
         k \in {x \in DOMAIN files : KindIs(x, "aimtable")}}

ItemIdsOf(k) ==
  {Items(files[k].data)[j].id : j \in DOMAIN Items(files[k].data)}
  \ {NotAString}

\* the string ids of the items of the AimTable documents before position n
AimIdsBefore(n) ==
  UNION {ItemIdsOf(k) : k \in {x \in DOMAIN files :
                                 x < n /\ KindIs(x, "aimtable")}}

ScannedAimIds == AimIdsBefore(Len(files) + 1)

Earlier(a, b) == a[1] < b[1] \/ (a[1] = b[1] /\ a[2] < b[2])

FirstCarrier(id) ==
  CHOOSE a \in Carriers(id) : \A b \in Carriers(id) : a = b \/ Earlier(a, b)

FirstItem(id) == Items(files[FirstCarrier(id)[1]].data)[FirstCarrier(id)[2]]

\* C1: after mergeAll, for every string id carried by an item of an AimTable
\* document, merged.aims holds one entry with that id, and it is the item of
\* the first document in scan order (the first item within it) that carries it.
C1_FirstWinsAims ==
  pc = "done" =>
    \A id \in ScannedAimIds :
      /\ Count([n \in DOMAIN merged.aims |-> merged.aims[n].id], id) = 1
      /\ \A n \in DOMAIN merged.aims :
           merged.aims[n].id = id => merged.aims[n] = FirstItem(id)

\* ---- hierarchy
HierarchyDocs == {k \in DOMAIN files : KindIs(k, "hierarchy")}

\* C2: after mergeAll over files in ascending batch order, merged.hierarchy is
\* the Hierarchy document scanned last, which lies in the greatest batch that
\* holds a Hierarchy document; it is null when no Hierarchy document was scanned.
C2_LatestWinsHierarchy ==
  pc = "done" =>
    IF HierarchyDocs = {} THEN merged.hierarchy = NullData
    ELSE \E k \in HierarchyDocs :
           /\ \A j \in HierarchyDocs : files[j].batch <= files[k].batch
           /\ \A j \in HierarchyDocs : j <= k
           /\ merged.hierarchy = files[k].data

\* two Hierarchy documents of different batches and contents were scanned and
\* the later one is in the aggregate
C2_Witness ==
  /\ pc = "done"
  /\ \E j, k \in HierarchyDocs :
       /\ files[j].batch < files[k].batch
       /\ files[j].data # files[k].data
       /\ merged.hierarchy = files[k].data

\* ---- reference checks
Projects(d) == IF d.isNull THEN <<>> ELSE d.projects

\* <<p, pa, s>>: the slices of a document, by their 1-based positions
SlicePositions(d) ==
  UNION {UNION {{<<p, pa, s>> : s \in DOMAIN Projects(d)[p].paths[pa].slices} :
                pa \in {x \in DOMAIN Projects(d)[p].paths :
                          ~Projects(d)[p].paths[x].isNull}} :
         p \in {x \in DOMAIN Projects(d) : ~Projects(d)[x].isNull}}

SliceAt(d, at) == Projects(d)[at[1]].paths[at[2]].slices[at[3]]

Callouts(sl) == sl.pos \o sl.neg

\* the walk gets to the slice: no null project or path comes before it
Reached(d, at) ==
  /\ \A p \in 1..at[1] : ~Projects(d)[p].isNull
  /\ \A p \in 1..(at[1] - 1) :
       \A pa \in DOMAIN Projects(d)[p].paths : ~Projects(d)[p].paths[pa].isNull
  /\ \A pa \in 1..at[2] : ~Projects(d)[at[1]].paths[pa].isNull

\* the walk of the document raises: it is JSON null or holds a null project
\* or a null path
Malformed(d) ==
  \/ d.isNull
  \/ \E p \in DOMAIN d.projects :
       \/ d.projects[p].isNull
       \/ \E pa \in DOMAIN d.projects[p].paths : d.projects[p].paths[pa].isNull

\* the step that ingests the PlannerBundle at position i
PlannerStep ==
  pc = "fold" /\ i <= Len(files) /\ KindIs(i, "plannerbundle") /\ i' = i + 1

NewIssues == SubSeq(refIssues', Len(refIssues) + 1, Len(refIssues'))

IssueOf(type, id, k, at, idx) ==
  [type |-> type, id |-> id, file |-> [dir |-> 0, name |-> files[k].name],
   project |-> at[1] - 1, path |-> at[2] - 1, slice |-> at[3] - 1,
   index |-> idx - 1]

\* callout c of the slice at `at` got its issue, or none, by the ids in aims
AimCalloutSettled(at, c, aims) ==
  LET id == Callouts(SliceAt(files[i].data, at))[c]
  IN id # NotAString =>
       Count(NewIssues, IssueOf("aimId-not-found", id, i, at, c))
         = (IF id \in aims THEN 0 ELSE 1)

MicroEntrySettled(at, m, micros) ==
  LET id == SliceAt(files[i].data, at).includesMicros[m]
  IN id # NotAString =>
       Count(NewIssues, IssueOf("microId-not-found", id, i, at, m))
         = (IF id \in micros THEN 0 ELSE 1)

\* C3 as stated: when a PlannerBundle is ingested, every callout of every
\* slice whose aimId is not among the aim ids known so far produces exactly
\* one aimId-not-found issue naming the id and the file, a known one none.
C3_EveryCalloutChecked ==
  [][PlannerStep =>
       \A at \in SlicePositions(files[i].data) :
         \A c \in DOMAIN Callouts(SliceAt(files[i].data, at)) :
           AimCalloutSettled(at, c, aimIds)]_vars

\* C3 as amended: the same for every callout of every slice the walk reaches
\* before it raises (no null project or path precedes the slice in the bundle).
C3_ReachedCalloutChecked ==
  [][PlannerStep =>
       \A at \in SlicePositions(files[i].data) :
         Reached(files[i].data, at) =>
           \A c \in DOMAIN Callouts(SliceAt(files[i].data, at)) :
             AimCalloutSettled(at, c, aimIds)]_vars

\* a bundle was ingested when A1 was known and A2 was not: one issue for A2,
\* none for A1
C3_Witness ==
  /\ i > 1
  /\ KindIs(i - 1, "plannerbundle")
  /\ files[i - 1].data = PlannerA
  /\ "A1" \in AimIdsBefore(i - 1)
  /\ "A2" \notin AimIdsBefore(i - 1)
  /\ Len(refIssues) > 0
  /\ \E n \in DOMAIN refIssues :
       refIssues[n].type = "aimId-not-found" /\ refIssues[n].id = "A2"
  /\ \A n \in DOMAIN refIssues :
       refIssues[n].type = "aimId-not-found" => refIssues[n].id # "A1"

\* C4 as stated: when a PlannerBundle is ingested, every entry of a slice's
\* dod.includesMicros that is not among the micro ids known so far produces
\* exactly one microId-not-found issue, a known one none; micro references are
\* decided by the micro ids alone, aim references by the aim ids alone.
C4_EveryMicroChecked ==
  [][PlannerStep =>
       \A at \in SlicePositions(files[i].data) :
         /\ \A m \in DOMAIN SliceAt(files[i].data, at).includesMicros :
              MicroEntrySettled(at, m, microIds)
         /\ Reached(files[i].data, at) =>
              \A c \in DOMAIN Callouts(SliceAt(files[i].data, at)) :
                AimCalloutSettled(at, c, aimIds)]_vars

\* C4 as amended: the same for the slices the walk reaches before it raises.
C4_ReachedMicroChecked ==
  [][PlannerStep =>
       \A at \in SlicePositions(files[i].data) :
         Reached(files[i].data, at) =>
           /\ \A m \in DOMAIN SliceAt(files[i].data, at).includesMicros :
                MicroEntrySettled(at, m, microIds)
           /\ \A c \in DOMAIN Callouts(SliceAt(files[i].data, at)) :
                AimCalloutSettled(at, c, aimIds)]_vars

\* a micro reference to the known aim id A1 was flagged, one to the known
\* micro id M1 was not, and an aim reference to the known micro id M1 was
C4_Witness ==
  /\ "A1" \in aimIds
  /\ "M1" \in microIds
  /\ \E n \in DOMAIN refIssues :
       refIssues[n].type = "microId-not-found" /\ refIssues[n].id = "A1"
  /\ \E n \in DOMAIN refIssues :
       refIssues[n].type = "aimId-not-found" /\ refIssues[n].id = "M1"
  /\ \E n \in DOMAIN refIssues :
       refIssues[n].type = "microId-not-found" /\ refIssues[n].id = "M2"
  /\ \A n \in DOMAIN refIssues :
       refIssues[n].type = "microId-not-found" => refIssues[n].id # "M1"

\* ---- single pass
IsPrefix(a, b) == Len(a) <= Len(b) /\ SubSeq(b, 1, Len(a)) = a

MicrosBefore(n) ==
  UNION {CollectMicros(files[k].data) :
         k \in {x \in DOMAIN files : x < n /\ KindIs(x, "hierarchy")}}

AimDefinedLater(id) ==
  \E j \in DOMAIN files : j > i /\ KindIs(j, "aimtable") /\ id \in ItemIdsOf(j)

MicroDefinedLater(id) ==
  \E j \in DOMAIN files :
    j > i /\ KindIs(j, "hierarchy") /\ id \in CollectMicros(files[j].data)

\* the references of the slice at `at` that only a later document defines
\* are flagged in this step
EarlyRefsFlagged(at) ==
  LET sl == SliceAt(files[i].data, at)
  IN /\ \A c \in DOMAIN Callouts(sl) :
          (/\ Callouts(sl)[c] # NotAString
           /\ Callouts(sl)[c] \notin AimIdsBefore(i)
           /\ AimDefinedLater(Callouts(sl)[c]))
          => Count(NewIssues,
                   IssueOf("aimId-not-found", Callouts(sl)[c], i, at, c)) = 1
     /\ \A m \in DOMAIN sl.includesMicros :
          (/\ sl.includesMicros[m] # NotAString
           /\ sl.includesMicros[m] \notin MicrosBefore(i)
           /\ MicroDefinedLater(sl.includesMicros[m]))
          => Count(NewIssues,
                   IssueOf("microId-not-found", sl.includesMicros[m], i, at, m)) = 1

\* an issue once recorded stays where it is, and the report lists them all
IssuesKept ==
  /\ IsPrefix(refIssues, refIssues')
  /\ pc' = "done" => report'.refIssues = refIssues

\* C5 as stated: a PlannerBundle scanned before the AimTable or Hierarchy
\* document that defines an id it references is flagged, and no step removes
\* or re-evaluates a recorded issue: the final report still lists it.
C5_EarlyBundleFlagged ==
  [][/\ IssuesKept
     /\ PlannerStep =>
          \A at \in SlicePositions(files[i].data) : EarlyRefsFlagged(at)]_vars

\* C5 as amended: the same for the references the walk reaches before it
\* raises (no null project or path precedes their slice in the bundle).
C5_ReachedEarlyRefFlagged ==
  [][/\ IssuesKept
     /\ PlannerStep =>
          \A at \in SlicePositions(files[i].data) :
            Reached(files[i].data, at) => EarlyRefsFlagged(at)]_vars

\* a bundle of batch 1 referenced A2 and M1, documents of a later batch
\* defined them, and the final report still lists both issues
C5_Witness ==
  /\ pc = "done"
  /\ \E k \in DOMAIN files :
       /\ KindIs(k, "plannerbundle")
       /\ files[k].data = PlannerA
       /\ \E j \in DOMAIN files :
            j > k /\ KindIs(j, "aimtable") /\ "A2" \in ItemIdsOf(j)
       /\ \E j \in DOMAIN files :
            j > k /\ KindIs(j, "hierarchy")
            /\ "M1" \in CollectMicros(files[j].data)
  /\ "A2" \in aimIds
  /\ "M1" \in microIds
  /\ \E n \in DOMAIN report.refIssues :
       report.refIssues[n].type = "aimId-not-found"
       /\ report.refIssues[n].id = "A2"
  /\ \E n \in DOMAIN report.refIssues :
       report.refIssues[n].type = "microId-not-found"
       /\ report.refIssues[n].id = "M1"

\* C6: the known micro ids are those of every Hierarchy document scanned so
\* far; a bundle gets no microId-not-found issue for an id that any earlier
\* Hierarchy document defined, superseded or not; counts.microIds counts
\* the distinct micro ids of all scanned Hierarchy documents.
C6_MicroIdsOfAllHierarchies ==
  [][/\ pc' = "fold" => microIds' = MicrosBefore(i')
     /\ PlannerStep =>
          \A n \in DOMAIN NewIssues :
            NewIssues[n].type = "microId-not-found"
              => NewIssues[n].id \notin MicrosBefore(i)
     /\ pc' = "done" =>
          report'.counts.microIds
            = Cardinality(MicrosBefore(Len(files) + 1))]_vars

\* M1 is defined only by a superseded hierarchy, a later bundle lists M1 and
\* M2 and got no micro issue for either, and both ids are counted
C6_Witness ==
  /\ pc = "done"
  /\ "M1" \notin CollectMicros(merged.hierarchy)
  /\ \E h \in HierarchyDocs :
       /\ "M1" \in CollectMicros(files[h].data)
       /\ \E k \in DOMAIN files :
            k > h /\ KindIs(k, "plannerbundle") /\ files[k].data = PlannerA
  /\ report.counts.microIds = 2
  /\ \A n \in DOMAIN report.refIssues :
       report.refIssues[n].type = "microId-not-found"
         => report.refIssues[n].id \notin {"M1", "M2"}

\* C7: the known aim ids are the distinct string ids of the items of all
\* AimTable documents scanned, winners or not, and counts.aimIds is their
\* number.
C7_AimIdsCountDistinct ==
  /\ aimIds = AimIdsBefore(i)
  /\ pc = "done" => report.counts.aimIds = Cardinality(ScannedAimIds)

\* A1 is carried by items of two documents, one entry for it is in the
\* aggregate, and it is counted once
C7_Witness ==
  /\ pc = "done"
  /\ \E a, b \in Carriers("A1") : a[1] # b[1]
  /\ Count([n \in DOMAIN merged.aims |-> merged.aims[n].id], "A1") = 1
  /\ "A1" \in aimIds
  /\ report.counts.aimIds = 3

\* ---- planners
PlannerDocs == {k \in DOMAIN files : KindIs(k, "plannerbundle")}

\* C8: every PlannerBundle document is in merged.planners exactly once, in
\* scan order, whatever its reference check did, and counts.plannersTotal is
\* the number of PlannerBundle documents scanned.
C8_PlannersAdditive ==
  pc = "done" =>
    /\ Len(merged.planners) = Cardinality(PlannerDocs)
    /\ report.counts.plannersTotal = Cardinality(PlannerDocs)
    /\ \E at \in [DOMAIN merged.planners -> PlannerDocs] :
         /\ \A m, n \in DOMAIN merged.planners : m < n => at[m] < at[n]
         /\ \A n \in DOMAIN merged.planners :
              /\ merged.planners[n].source = [dir |-> 0, name |-> files[at[n]].name]
              /\ merged.planners[n].data = files[at[n]].data

\* two bundles of the same file name from two batches, one whose check
\* raised and one that recorded issues, are both in the aggregate
C8_Witness ==
  /\ pc = "done"
  /\ Len(merged.planners) = 2
  /\ merged.planners[1].source = merged.planners[2].source
  /\ merged.planners[1].data = PlannerB
  /\ merged.planners[2].data = PlannerA
  /\ \E n \in DOMAIN report.errors :
       report.errors[n].tag = "Ref-check crashed on"
  /\ report.counts.refIssues > 1

\* ---- files that cannot be ingested
KindWords == {"aimtable", "hierarchy", "plannerbundle"}

\* the document parsed and neither its version tag nor its file name holds
\* a kind word
Unrecognized(f) ==
  /\ f.parses
  /\ \A w \in KindWords :
       /\ \A t \in DOMAIN Version(f) : ToLower(Version(f)[t]) # w
       /\ \A t \in DOMAIN f.name : ToLower(f.name[t]) # w

Rejected(f) == ~f.parses \/ Unrecognized(f)

\* C9: a file that does not parse, or whose kind is unknown, adds exactly one
\* error naming that file, leaves aims, known ids, hierarchy, planners and
\* reference issues alone, and the fold goes on to the next file.
C9_BadFileOnlyAddsError ==
  [][(pc = "fold" /\ i <= Len(files) /\ Rejected(files[i])) =>
       /\ Len(errors') = Len(errors) + 1
       /\ IsPrefix(errors, errors')
       /\ errors'[Len(errors')].file
            = [dir |-> files[i].batch, name |-> files[i].name]
       /\ errors'[Len(errors')].tag
            = (IF files[i].parses THEN "Skipped unrecognized import"
               ELSE "Failed to parse")
       /\ UNCHANGED <<aimsMap, aimIds, microIds, hierarchy, planners,
                      refIssues>>
       /\ i' = i + 1
       /\ pc' = "fold"]_vars

\* a file that did not parse and one of unknown kind were each followed by a
\* document that was ingested, and the run returned
C9_Witness ==
  /\ pc = "done"
  /\ Len(files) = 3
  /\ ~files[1].parses
  /\ Unrecognized(files[2])
  /\ KindIs(3, "plannerbundle")
  /\ Len(report.errors) = 2
  /\ Len(merged.planners) = 1
  /\ merged.aims = <<>>

\* ---- a bundle whose walk raises
CrashedBefore(n, name) ==
  {k \in DOMAIN files :
     /\ k < n
     /\ KindIs(k, "plannerbundle")
     /\ Malformed(files[k].data)
     /\ files[k].name = name}

CrashErrorOf(name) ==
  [tag |-> "Ref-check crashed on", file |-> [dir |-> 0, name |-> name]]

\* C10: every bundle whose walk raised left exactly one error tagged with its
\* file name, a bundle whose walk did not raise left none, the fold is never
\* stuck before the end of the list, and the run ends with every file
\* processed and an aggregate and a report returned.
C10_CrashCaughtPerDocument ==
  /\ \A name \in {NameOrder[k] : k \in DOMAIN NameOrder} :
       Count(errors, CrashErrorOf(name)) = Cardinality(CrashedBefore(i, name))
  /\ pc = "done" \/ ENABLED Next
  /\ pc = "done" =>
       /\ i = Len(files) + 1
       /\ report.errors = errors
       /\ report.counts.importsTotal = Len(files)
       /\ Len(merged.sources) = Len(files)

\* the walk of the first bundle raised; the AimTable and the bundle after it
\* were ingested, and the run returned with the one crash error
C10_Witness ==
  /\ pc = "done"
  /\ Len(files) = 3
  /\ KindIs(1, "plannerbundle") /\ Malformed(files[1].data)
  /\ KindIs(2, "aimtable")
  /\ KindIs(3, "plannerbundle") /\ ~Malformed(files[3].data)
  /\ report.errors = <<CrashErrorOf(files[1].name)>>
  /\ Len(merged.aims) > 0
  /\ Len(merged.planners) = 2
  /\ report.counts.refIssues > 0

\* ---------------------------------------------------- listImportJsonFiles
\* The scanner over names as they are: a name is the sequence of its
\* characters, and Array.prototype.sort without a comparator orders strings
\* by their UTF-16 code units.
CodeUnit(c) ==
  CASE c = "-" -> 45 [] c = "." -> 46 [] c = "/" -> 47
    [] c = "0" -> 48 [] c = "1" -> 49 [] c = "2" -> 50
    [] c = "J" -> 74 [] c = "N" -> 78 [] c = "O" -> 79 [] c = "S" -> 83
    [] c = "a" -> 97 [] c = "b" -> 98 [] c = "c" -> 99 [] c = "d" -> 100
    [] c = "j" -> 106 [] c = "n" -> 110 [] c = "o" -> 111 [] c = "r" -> 114
    [] c = "s" -> 115 [] c = "t" -> 116 [] c = "x" -> 120

\* s < t for strings
RECURSIVE StrLess(_, _)
StrLess(s, t) ==
  IF Len(t) = 0 THEN FALSE
  ELSE IF Len(s) = 0 THEN TRUE
  ELSE IF CodeUnit(s[1]) # CodeUnit(t[1]) THEN CodeUnit(s[1]) < CodeUnit(t[1])
  ELSE StrLess(Tail(s), Tail(t))

LowerChar(c) ==
  CASE c = "J" -> "j" [] c = "N" -> "n" [] c = "O" -> "o" [] c = "S" -> "s"
    [] OTHER -> c

\* name.toLowerCase().endsWith('.json')
EndsWithJson(name) ==
  /\ Len(name) >= 5
  /\ [k \in 1..5 |-> LowerChar(name[Len(name) - 5 + k])]
       = <<".", "j", "s", "o", "n">>

\* path.join(dir, name)
PathJoin(dir, name) == dir \o <<"/">> \o name

\* the imports root (its own characters are the same in every path)
ImportsRoot == <<"r">>

\* names a directory entry of the root may have
BatchNames == {<<"2", "0">>, <<"2", "0", "-", "1">>, <<"2", "0", "1">>}

\* entries a batch directory may hold: files and a subdirectory
BatchEntries ==
  {[name |-> <<"a", ".", "j", "s", "o", "n">>, isFile |-> TRUE],
   [name |-> <<"b", ".", "J", "S", "O", "N">>, isFile |-> TRUE],
   [name |-> <<"c", ".", "t", "x", "t">>, isFile |-> TRUE],
   [name |-> <<"d", ".", "j", "s", "o", "n">>, isFile |-> FALSE]}

\* what there may be under a name of the root: nothing, a plain file, or a
\* directory with its entries
RootOptions ==
  {[kind |-> "absent", entries |-> {}], [kind |-> "file", entries |-> {}]}
  \cup {[kind |-> "directory", entries |-> e] : e \in SUBSET BatchEntries}

\* the trees: no imports/ at all, or entries with distinct names
Trees ==
  {[root |-> FALSE, entries |-> {}]}
  \cup {[root |-> TRUE,
         entries |-> {[name |-> b, isDirectory |-> c[b].kind = "directory",
                       entries |-> c[b].entries] :
                        b \in {x \in BatchNames : c[x].kind # "absent"}}] :
          c \in [BatchNames -> RootOptions]}

\* out before the sort, as a set: the paths pushed
Pushed(t) ==
  {PathJoin(PathJoin(ImportsRoot, e.name), f.name) :
     e \in {x \in t.entries : x.isDirectory},
     f \in {y \in BatchEntries : y.isFile /\ EndsWithJson(y.name)}}
  \cap UNION {{PathJoin(PathJoin(ImportsRoot, e.name), f.name) : f \in e.entries} :
               e \in t.entries}

\* out.sort()
SortStrings(set) ==
  [n \in 1..Cardinality(set) |->
     CHOOSE q \in set : Cardinality({u \in set : StrLess(u, q)}) = n - 1]

listImportJsonFiles(t) ==
  IF ~t.root THEN <<>> ELSE SortStrings(Pushed(t))

InitScan ==
  /\ tree \in Trees
  /\ out = <<>>
  /\ visited = <<>>
  /\ pc = "scan"
  /\ files = <<>>
  /\ MergeLocals
  /\ dryRun = FALSE
  /\ strategy = "default"
  /\ NoProcess
  /\ NoClassify
  /\ NoRender
  /\ NoImporter

\* const files = listImportJsonFiles(importsRoot)
ScanStep ==
  /\ pc = "scan"
  /\ out' = listImportJsonFiles(tree)
  /\ pc' = "visit"
  /\ UNCHANGED <<files, i, aimIds, microIds, refIssues, errors, aimsMap,
                 hierarchy, planners, report, merged, outRoot, dryRun,
                 strategy, now, run, exitCode, calls, stdout, disk, past,
                 tree, visited, doc, docKind, md,
                 args, raw, inbox>>

\* for (const file of files): the loop of mergeAll takes the next file
VisitStep ==
  /\ pc = "visit"
  /\ Len(visited) < Len(out)
  /\ visited' = Append(visited, out[Len(visited) + 1])
  /\ UNCHANGED <<files, i, pc, aimIds, microIds, refIssues, errors, aimsMap,
                 hierarchy, planners, report, merged, outRoot, dryRun,
                 strategy, now, run, exitCode, calls, stdout, disk, past,
                 tree, out, doc, docKind, md,
                 args, raw, inbox>>

NextScan == ScanStep \/ VisitStep

SpecScan == InitScan /\ [][NextScan]_vars

\* ---------------------------------------------------------- classification
\* inferredKind on its own, over version tags and file names that agree,
\* disagree, or name no kind.
VersionTokens == {"AimTable", "hierarchy", "PlannerBundle", "x-", ".v1"}

\* data.version when it is a string; a version that is absent or not a
\* string reads as '' like the empty tag
VersionTags ==
  {<<>>} \cup {<<a>> : a \in VersionTokens}
         \cup {<<a, b>> : a \in VersionTokens, b \in VersionTokens}

\* the parsed documents: JSON null, or an object with a version tag
ClassifyDocs ==
  {File(1, NameOrder[k], TRUE, NullData) : k \in DOMAIN NameOrder}
  \cup {File(1, NameOrder[k], TRUE, [EmptyData EXCEPT !.version = v]) :
          k \in DOMAIN NameOrder, v \in VersionTags}

InitClassify ==
  /\ doc \in ClassifyDocs
  /\ docKind = "unknown"
  /\ pc = "classify"
  /\ files = <<>>
  /\ MergeLocals
  /\ dryRun = FALSE
  /\ strategy = "default"
  /\ NoProcess
  /\ NoScan
  /\ NoRender
  /\ NoImporter

\* const version = ...; let inferredKind = ...
Classify ==
  /\ pc = "classify"
  /\ docKind' = inferredKind(doc)
  /\ pc' = "classified"
  /\ UNCHANGED <<files, i, aimIds, microIds, refIssues, errors, aimsMap,
                 hierarchy, planners, report, merged, outRoot, dryRun,
                 strategy, now, run, exitCode, calls, stdout, disk, past,
                 tree, out, visited, doc, md,
                 args, raw, inbox>>

NextClassify == Classify

SpecClassify == InitClassify /\ [][NextClassify]_vars

\* -------------------------------------------------------------- rendering
\* The text of report.md on its own, over the reports of one planner bundle
\* whose callouts and includesMicros hold known ids, unknown ids, the empty
\* string and values that are not strings.
RenderAimIds == {"A1", "", NotAString}
RenderMicroIds == {"M1", ""}

RenderCallouts ==
  UNION {[1..n -> RenderAimIds] : n \in 0..MaxCallouts}

RenderMicros == {<<>>} \cup {<<m>> : m \in RenderMicroIds}

RenderBundle(pos, mic) ==
  File(1, NamePlanner, TRUE,
       [EmptyData EXCEPT !.projects =
          <<Project(<<Path(<<Slice(pos, <<>>, mic)>>)>>)>>])

\* what mergeAll returns for the bundle alone, or after an AimTable that
\* defines A1, or after a file that did not parse
RenderReport(pos, mic, aims, errs) ==
  Report(<<RenderBundle(pos, mic)>>,
         PushPlanner(<<>>, RenderBundle(pos, mic)),
         aims, {},
         RefCheck(RenderBundle(pos, mic), aims, {}).issues,
         errs)
    @@ [mergedAt |-> toISOString(0)]

InitRender ==
  /\ \E pos \in RenderCallouts, mic \in RenderMicros,
        aims \in {{}, {"A1"}},
        errs \in {<<>>, <<ParseError(File(1, NameAimTable, FALSE, EmptyData))>>} :
       report = RenderReport(pos, mic, aims, errs)
  /\ md = <<>>
  /\ NoImporter
  /\ pc = "render"
  /\ files = <<>>
  /\ i = 1
  /\ aimIds = {}
  /\ microIds = {}
  /\ refIssues = <<>>
  /\ errors = <<>>
  /\ aimsMap = <<>>
  /\ hierarchy = NullData
  /\ planners = <<>>
  /\ merged = NoOutput
  /\ outRoot = NoOutRoot
  /\ dryRun = FALSE
  /\ strategy = "default"
  /\ NoProcess
  /\ NoScan
  /\ NoClassify

\* const md = [ ... ].filter(Boolean).join('\n')
Render ==
  /\ pc = "render"
  /\ md' = ReportMd(report)
  /\ pc' = "rendered"
  /\ UNCHANGED <<files, i, aimIds, microIds, refIssues, errors, aimsMap,
                 hierarchy, planners, report, merged, outRoot, dryRun,
                 strategy, now, run, exitCode, calls, stdout, disk, past,
                 tree, out, visited, doc, docKind, args, raw, inbox>>

\* fs.writeFileSync(mdPath, md)
WriteMd ==
  /\ pc = "rendered"
  /\ disk' = [dirs |-> disk.dirs,
              files |-> WriteFile(disk.files, Artifact(outRoot, "report.md"),
                                  [run |-> run, content |-> md])]
  /\ pc' = "written"
  /\ UNCHANGED <<files, i, aimIds, microIds, refIssues, errors, aimsMap,
                 hierarchy, planners, report, merged, outRoot, dryRun,
                 strategy, now, run, exitCode, calls, stdout, past, tree,
                 out, visited, doc, docKind, md,
                 args, raw, inbox>>

NextRender == Render \/ WriteMd

SpecRender == InitRender /\ [][NextRender]_vars

(***************************************************************************)
(* Properties of the command (SpecCli).                                    *)
(***************************************************************************)
ArtifactNames ==
  {"blueprint.merge.json", "blueprint.merge.report.json", "report.md"}

\* the files on disk whose last writer is run r
WrittenBy(r) == {p \in DOMAIN disk.files : disk.files[p].run = r}

PrintedReport ==
  \E n \in DOMAIN stdout :
    /\ stdout[n].stream = "stdout"
    /\ stdout[n].line = "report"
    /\ stdout[n].value = JSONstringify(report)

\* the run has put its three files, and nothing else, under outRoot
ThreeArtifacts ==
  /\ WrittenBy(run) = {Artifact(outRoot, n) : n \in ArtifactNames}
  /\ outRoot[1] = "merges"
  /\ outRoot \in disk.dirs
  /\ disk.files[Artifact(outRoot, "blueprint.merge.json")].content
       = JSONstringify(merged)
  /\ disk.files[Artifact(outRoot, "blueprint.merge.report.json")].content
       = JSONstringify(report)
  /\ disk.files[Artifact(outRoot, "report.md")].content = ReportMd(report)

RunEnd ==
  (pc = "exit" /\ Len(files) # 0) =>
     IF dryRun THEN PrintedReport /\ "writeOutputs" \notin calls
     ELSE ThreeArtifacts

SameReport(a, b) ==
  /\ a.version = b.version
  /\ a.counts = b.counts
  /\ a.errors = b.errors
  /\ a.invalidPlanners = b.invalidPlanners
  /\ a.refIssues = b.refIssues

\* two aggregates agree in everything but mergedAt
SameMerged(a, b) ==
  /\ a.version = b.version
  /\ a.sources = b.sources
  /\ a.aims = b.aims
  /\ a.hierarchy = b.hierarchy
  /\ a.planners = b.planners

MergedAndExited == pc = "exit" /\ "mergeAll" \in calls

\* C16: a run whose report holds a reference issue ends with an exit code
\* that is neither 0 nor the code of the run without inputs, and it has
\* produced the aggregate all the same.
C16_IssuesGiveWarningCode ==
  (MergedAndExited /\ Len(report.refIssues) > 0) =>
     /\ exitCode # 0
     /\ exitCode # NoImportsExitCode
     /\ merged.version = "blueprint.merge.v1"
     /\ ~dryRun => ThreeArtifacts

\* C17: the exit code is 2 whenever report.errors is not empty, and 0 for
\* a merge without errors and without reference issues.
C17_ErrorsGiveExitTwo ==
  MergedAndExited =>
     /\ Len(report.errors) > 0 => exitCode = 2
     /\ (Len(report.errors) = 0 /\ Len(report.refIssues) = 0) => exitCode = 0

\* ---- output directories
\* run r has written its artifacts
Wrote(r) == "writeOutputs" \in past[r].calls

\* C19: a run that writes makes its directory under merges/ (with merges/
\* itself), no earlier run has written into that directory, and the three
\* artifacts of every earlier run are still the ones that run wrote.
C19_OwnDirectoryPerRun ==
  /\ "writeOutputs" \in calls =>
       /\ <<"merges">> \in disk.dirs
       /\ outRoot \in disk.dirs
       /\ \A r \in DOMAIN past : Wrote(r) => past[r].outRoot # outRoot
  /\ \A r \in DOMAIN past :
       Wrote(r) =>
         WrittenBy(r) = {Artifact(past[r].outRoot, n) : n \in ArtifactNames}

(***************************************************************************)
(* Properties of the strategy (SpecStrategy).                              *)
(***************************************************************************)
BatchesOf(ks) == {files[k].batch : k \in ks}

\* the batches that hold an item with this id
CarrierBatches(id) == BatchesOf({a[1] : a \in Carriers(id)})

Latest(bs) == CHOOSE b \in bs : \A c \in bs : c <= b
Oldest(bs) == CHOOSE b \in bs : \A c \in bs : b <= c

\* the entry is an item of an AimTable document of batch b
AimFromBatch(e, b) ==
  \E a \in Carriers(e.id) :
    files[a[1]].batch = b /\ Items(files[a[1]].data)[a[2]] = e

HierarchyFromBatch(b) ==
  \E k \in HierarchyDocs : files[k].batch = b /\ merged.hierarchy = files[k].data

\* C18: without the option every entry of merged.aims and the hierarchy
\* come from the latest batch that holds one for the id (for the
\* hierarchy: that holds a Hierarchy document); with --strategy first-wins
\* they come from the oldest such batch.
C18_StrategyDecidesWinner ==
  pc = "done" =>
    /\ \A n \in DOMAIN merged.aims :
         AimFromBatch(merged.aims[n],
                      IF strategy = "first-wins"
                      THEN Oldest(CarrierBatches(merged.aims[n].id))
                      ELSE Latest(CarrierBatches(merged.aims[n].id)))
    /\ HierarchyDocs # {} =>
         HierarchyFromBatch(IF strategy = "first-wins"
                            THEN Oldest(BatchesOf(HierarchyDocs))
                            ELSE Latest(BatchesOf(HierarchyDocs)))

(***************************************************************************)
(* Properties of the scanner (SpecScan).                                   *)
(***************************************************************************)
\* the places of the separators in a path
Seps(q) == {k \in DOMAIN q : q[k] = "/"}

\* imports/<batch>/<file>: the batch directory name and the file name
BatchOf(q) ==
  LET a == CHOOSE k \in Seps(q) : \A m \in Seps(q) : k <= m
      b == CHOOSE k \in Seps(q) : \A m \in Seps(q) : k >= m
  IN SubSeq(q, a + 1, b - 1)

FileOf(q) ==
  LET b == CHOOSE k \in Seps(q) : \A m \in Seps(q) : k >= m
  IN SubSeq(q, b + 1, Len(q))

\* C13: the list the scanner returns is ascending by batch directory name
\* (lexicographic) and, within one batch, by file name, whatever the batch
\* names are; the loop of mergeAll takes the files in the order of the list.
C13_BatchThenFileOrder ==
  /\ \A m, n \in DOMAIN out :
       m < n =>
         \/ StrLess(BatchOf(out[m]), BatchOf(out[n]))
         \/ /\ BatchOf(out[m]) = BatchOf(out[n])
            /\ StrLess(FileOf(out[m]), FileOf(out[n]))
  /\ Len(visited) <= Len(out)
  /\ visited = SubSeq(out, 1, Len(visited))

(***************************************************************************)
(* Properties of classification (SpecClassify).                            *)
(***************************************************************************)
\* the kind whose tag the version begins with, ignoring case
PrefixKind(v) ==
  IF Len(v) > 0 /\ ToLower(v[1]) \in KindWords THEN ToLower(v[1]) ELSE "none"

\* C14: the kind is the kind tag the version begins with (ignoring case);
\* only a version that begins with no kind tag leaves the choice to the kind
\* word in the file name, and without one the kind is unknown; every
\* document is classified, none raises.
C14_PrefixThenFileName ==
  /\ pc = "classify" => ENABLED Classify
  /\ pc = "classified" =>
       docKind = IF PrefixKind(Version(doc)) # "none"
                 THEN PrefixKind(Version(doc))
                 ELSE kindFromFilename(doc)

(***************************************************************************)
(* Properties of the rendering (SpecRender).                               *)
(***************************************************************************)
HasLine(text) == \E n \in DOMAIN md : md[n].text = text

IssueLines == SelectSeq(md, LAMBDA l : l.text = "- [type] file -> at")

\* the decoration the claim gives an issue
ClaimedSuffix(ri) ==
  [label |-> IF ri.type = "aimId-not-found" THEN "aimId" ELSE "microId",
   id |-> ri.id]

\* C20: report.md has the line "## Errors" exactly when report.errors is
\* not empty and the line "## Reference issues" exactly when
\* report.refIssues is not empty, and it has one line for every reference
\* issue, in order, with its type, file and place and with (aimId: X) or
\* (microId: X) for the id X of the issue, whatever string X is.
C20_SectionsAndIssueLines ==
  pc \in {"rendered", "written"} =>
    /\ HasLine("## Errors") <=> Len(report.errors) > 0
    /\ HasLine("## Reference issues") <=> Len(report.refIssues) > 0
    /\ Len(IssueLines) = Len(report.refIssues)
    /\ \A n \in DOMAIN report.refIssues :
         /\ IssueLines[n].arg.type = report.refIssues[n].type
         /\ IssueLines[n].arg.file = report.refIssues[n].file
         /\ IssueLines[n].arg.at = At(report.refIssues[n])
         /\ IssueLines[n].arg.suffix = ClaimedSuffix(report.refIssues[n])

(***************************************************************************)
(* Properties of the merge core, continued (Spec).                         *)
(***************************************************************************)
\* ---- aims and known aim ids
\* C21: after mergeAll the ids of the entries of merged.aims are exactly
\* the known aim ids, one entry each: merged.aims is as long as
\* counts.aimIds says, whatever strings the ids are.
C21_OneEntryPerKnownAim ==
  pc = "done" =>
    /\ {merged.aims[n].id : n \in DOMAIN merged.aims} = aimIds
    /\ Len(merged.aims) = report.counts.aimIds

\* ---- each kind its own state
HasWord(str, w) == \E t \in DOMAIN str : ToLower(str[t]) = w

\* the kind of a parsed document: the first kind word its version tag
\* holds, else the first its file name holds
DocKind(f) ==
  IF \E w \in KindWords : HasWord(Version(f), w)
  THEN (IF HasWord(Version(f), "aimtable") THEN "aimtable"
        ELSE IF HasWord(Version(f), "hierarchy") THEN "hierarchy"
        ELSE "plannerbundle")
  ELSE IF HasWord(f.name, "aimtable") THEN "aimtable"
  ELSE IF HasWord(f.name, "hierarchy") THEN "hierarchy"
  ELSE IF HasWord(f.name, "plannerbundle") THEN "plannerbundle"
  ELSE "unknown"

\* the fold is at a parsed document of this kind
Folding(kind) ==
  pc = "fold" /\ i <= Len(files) /\ files[i].parses /\ DocKind(files[i]) = kind

\* C22: the step that ingests an AimTable document changes nothing but the
\* aim map and the known aim ids, the step for a Hierarchy document nothing
\* but the hierarchy pointer and the known micro ids, and the step for a
\* PlannerBundle nothing but planners, reference issues and errors (each
\* moves on to the next file).
C22_EachKindItsOwnState ==
  [][/\ Folding("aimtable") =>
          UNCHANGED <<microIds, hierarchy, planners, refIssues, errors>>
     /\ Folding("hierarchy") =>
          UNCHANGED <<aimsMap, aimIds, planners, refIssues, errors>>
     /\ Folding("plannerbundle") =>
          UNCHANGED <<aimsMap, aimIds, microIds, hierarchy>>
     /\ (Folding("aimtable") \/ Folding("hierarchy") \/ Folding("plannerbundle"))
          => (i' = i + 1
              /\ UNCHANGED <<files, pc, report, merged, outRoot>>)]_vars

\* an AimTable, a Hierarchy and a PlannerBundle were ingested one after the
\* other and each left its mark: aims, micro ids, and a planner with issues
\* and a crash error
C22_Witness ==
  /\ pc = "fold"
  /\ i = 4
  /\ DocKind(files[1]) = "aimtable" /\ files[1].parses
  /\ DocKind(files[2]) = "hierarchy"
  /\ DocKind(files[3]) = "plannerbundle"
  /\ Len(aimsMap) > 0
  /\ aimIds # {}
  /\ hierarchy # NullData
  /\ microIds # {}
  /\ Len(planners) = 1
  /\ Len(refIssues) > 0
  /\ Len(errors) = 1

(***************************************************************************)
(* The importer (src/importer/cli.js).  One action is one run of main up   *)
(* to its process.exit or its end; the command line and the text read are  *)
(* its inputs.  What Ajv answers for a document depends on the schema      *)
(* files, which the document carries here as the set of types whose schema *)
(* it satisfies.                                                           *)
(***************************************************************************)
Undefined == "<undefined>"
Null == "<null>"

\* !x for the values a type can have
Falsy(x) == x \in {Undefined, Null, ""}

ImportTypes == {"aimtable", "hierarchy", "plannerbundle"}

\* command lines, the tokens after the script name
Argvs ==
  {<<>>,
   <<"--mode", "stdin", "--type", "plannerbundle">>,
   <<"--mode", "stdin", "--type", "aimtable", "--out-dir", "staging">>,
   <<"--type", "planner">>,
   <<"--mode", "stdin", "--type">>,
   <<"--mode", "file">>,
   <<"--out-dir">>,
   <<"-h">>}

\* argv[++i]
ArgAt(argv, k) == IF k <= Len(argv) THEN argv[k] ELSE Undefined

\* the loop of parseArgs from token k on
RECURSIVE parseArgsFrom(_, _, _)
parseArgsFrom(argv, k, a) ==
  IF k > Len(argv) THEN a
  ELSE IF argv[k] \in {"--help", "-h"}
    THEN [help |-> TRUE, mode |-> Undefined, type |-> Undefined,
          outDir |-> Undefined]
  ELSE IF argv[k] = "--mode"
    THEN parseArgsFrom(argv, k + 2, [a EXCEPT !.mode = ArgAt(argv, k + 1)])
  ELSE IF argv[k] = "--type"
    THEN parseArgsFrom(argv, k + 2, [a EXCEPT !.type = ArgAt(argv, k + 1)])
  ELSE IF argv[k] = "--out-dir"
    THEN parseArgsFrom(argv, k + 2, [a EXCEPT !.outDir = ArgAt(argv, k + 1)])
  ELSE parseArgsFrom(argv, k + 1, a)

parseArgs(argv) ==
  parseArgsFrom(argv, 1, [help |-> FALSE, mode |-> "paste", type |-> Null,
                          outDir |-> "imports"])

\* JSON values pasted or piped in: an object or not, its version member, and
\* the types whose schema it satisfies
Json(object, version, validFor) ==
  [object |-> object, version |-> version, validFor |-> validFor]

NotParsed == Json(FALSE, Undefined, {})

ImportJsons ==
  {Json(TRUE, "aimtable.v1", {"aimtable"}),
   Json(TRUE, "hierarchy.v1", {"hierarchy"}),
   Json(TRUE, "plannerbundle.v1", {"plannerbundle"}),
   Json(TRUE, "aimtable.v1", {}),
   Json(TRUE, "plannerbundle.v2", {"plannerbundle"}),
   Json(FALSE, Undefined, {})}

\* what readPaste or readStdin gave: a read error, text that is not JSON, or
\* the text of a JSON value
Input(ok, parses, json) ==
  [read |-> TRUE, ok |-> ok, parses |-> parses, json |-> json]

Inputs ==
  {Input(FALSE, FALSE, NotParsed), Input(TRUE, FALSE, NotParsed)}
  \cup {Input(TRUE, TRUE, j) : j \in ImportJsons}

NotRead == [read |-> FALSE]

detectType(json) ==
  IF ~json.object THEN Null
  ELSE CASE json.version = "aimtable.v1" -> "aimtable"
         [] json.version = "hierarchy.v1" -> "hierarchy"
         [] json.version = "plannerbundle.v1" -> "plannerbundle"
         [] OTHER -> Null

\* const type = args.type || detectType(json)
TypeOf(a, json) == IF ~Falsy(a.type) THEN a.type ELSE detectType(json)

\* { $ref: '<type>.v1.schema.json' }, or null
NoSchemaRef == [ref |-> Null]

getSchemaRef(type) ==
  IF type \in ImportTypes THEN [ref |-> type] ELSE NoSchemaRef

\* a validator that accepts every document
Validate_Always(schemaRef, json) == TRUE

\* ajv.compile(schemaRef)(json)
Validate(schemaRef, json) == schemaRef.ref \in json.validFor

\* timestamp(): the instant without its fraction
timestamp(t) == toISOString(t).seconds

\* `${type}.v1.import.json`
ImportName(type) == <<type, "v1", "import", "json">>

InitImport ==
  /\ pc = "shell"
  /\ files = <<>>
  /\ MergeLocals
  /\ dryRun = FALSE
  /\ strategy = "default"
  /\ NoProcess
  /\ NoScan
  /\ NoClassify
  /\ NoRender
  /\ NoImporter

\* a run of the importer ends: the process is gone, and with it what an
\* earlier command held in memory; nothing of the merger's is touched
Exit(code) ==
  /\ exitCode' = code
  /\ run' = run + 1
  /\ out' = <<>>
  /\ UNCHANGED <<files, i, pc, aimIds, microIds, refIssues, errors, aimsMap,
                 hierarchy, planners, report, merged, outRoot, dryRun,
                 strategy, now, calls, stdout, disk, past, tree, visited, doc,
                 docKind, md>>

\* time passes between commands
ImportTick ==
  /\ now < MaxTime
  /\ now' = now + 1
  /\ UNCHANGED <<files, i, pc, aimIds, microIds, refIssues, errors, aimsMap,
                 hierarchy, planners, report, merged, outRoot, dryRun,
                 strategy, run, exitCode, calls, stdout, disk, past, tree,
                 out, visited, doc, docKind, md, args, raw, inbox>>

\* if (args.help) { printHelp(); process.exit(0); }
ImportHelp ==
  /\ run <= MaxRuns
  /\ \E argv \in Argvs :
       /\ parseArgs(argv).help
       /\ args' = parseArgs(argv)
  /\ raw' = NotRead
  /\ UNCHANGED inbox
  /\ Exit(0)

\* if (!['paste', 'stdin'].includes(args.mode)) { ...; process.exit(2); }
ImportBadMode ==
  /\ run <= MaxRuns
  /\ \E argv \in Argvs :
       /\ ~parseArgs(argv).help
       /\ parseArgs(argv).mode \notin {"paste", "stdin"}
       /\ args' = parseArgs(argv)
  /\ raw' = NotRead
  /\ UNCHANGED inbox
  /\ Exit(2)

\* the command line let main read its input
Reads(argv, input) ==
  /\ ~parseArgs(argv).help
  /\ parseArgs(argv).mode \in {"paste", "stdin"}
  /\ args' = parseArgs(argv)
  /\ raw' = input

\* catch (e) { console.error(`Read error ...`); process.exit(2); }
ImportReadError ==
  /\ run <= MaxRuns
  /\ \E argv \in Argvs, input \in Inputs :
       /\ Reads(argv, input)
       /\ ~input.ok
  /\ UNCHANGED inbox
  /\ Exit(2)

\* json = JSON.parse(raw) threw: process.exit(1)
ImportInvalidJson ==
  /\ run <= MaxRuns
  /\ \E argv \in Argvs, input \in Inputs :
       /\ Reads(argv, input)
       /\ input.ok
       /\ ~input.parses
  /\ UNCHANGED inbox
  /\ Exit(1)

\* if (!type) { ...; process.exit(2); }
ImportNoType ==
  /\ run <= MaxRuns
  /\ \E argv \in Argvs, input \in Inputs :
       /\ Reads(argv, input)
       /\ input.ok
       /\ input.parses
       /\ Falsy(TypeOf(parseArgs(argv), input.json))
  /\ UNCHANGED inbox
  /\ Exit(2)

\* if (!schemaRef) { ...; process.exit(2); }
ImportUnknownType ==
  /\ run <= MaxRuns
  /\ \E argv \in Argvs, input \in Inputs :
       /\ Reads(argv, input)
       /\ input.ok
       /\ input.parses
       /\ ~Falsy(TypeOf(parseArgs(argv), input.json))
       /\ getSchemaRef(TypeOf(parseArgs(argv), input.json)) = NoSchemaRef
  /\ UNCHANGED inbox
  /\ Exit(2)

\* main got as far as validate(json)
Validates(argv, input) ==
  /\ Reads(argv, input)
  /\ input.ok
  /\ input.parses
  /\ ~Falsy(TypeOf(parseArgs(argv), input.json))
  /\ getSchemaRef(TypeOf(parseArgs(argv), input.json)) # NoSchemaRef

\* if (!valid) { ...; process.exit(1); }
ImportInvalid ==
  /\ run <= MaxRuns
  /\ \E argv \in Argvs, input \in Inputs :
       /\ Validates(argv, input)
       /\ ~Validate(getSchemaRef(TypeOf(parseArgs(argv), input.json)),
                    input.json)
  /\ UNCHANGED inbox
  /\ Exit(1)

\* path.resolve(process.cwd(), undefined) throws: main().catch exits with 2
ImportCrash ==
  /\ run <= MaxRuns
  /\ \E argv \in Argvs, input \in Inputs :
       /\ Validates(argv, input)
       /\ Validate(getSchemaRef(TypeOf(parseArgs(argv), input.json)),
                   input.json)
       /\ parseArgs(argv).outDir = Undefined
  /\ UNCHANGED inbox
  /\ Exit(2)

\* ensureDir(outDir); fs.writeFileSync(outFile, JSON.stringify(json, null, 2))
ImportSave ==
  /\ run <= MaxRuns
  /\ \E argv \in Argvs, input \in Inputs :
       /\ Validates(argv, input)
       /\ Validate(getSchemaRef(TypeOf(parseArgs(argv), input.json)),
                   input.json)
       /\ parseArgs(argv).outDir # Undefined
       /\ LET outDir == <<parseArgs(argv).outDir, timestamp(now)>>
              outFile == Artifact(outDir,
                           ImportName(TypeOf(parseArgs(argv), input.json)))
          IN inbox' = [dirs |-> MkdirRecursive(inbox.dirs, outDir),
                       files |-> WriteFile(inbox.files, outFile,
                                           JSONstringify(input.json))]
  /\ Exit(0)

\* listImportJsonFiles(path.join(process.cwd(), 'imports')) over what the
\* importer left: the files named *.json in the directories of imports/,
\* sorted as strings.  The stamps have one width and the names
\* <type>.v1.import.json differ in their first letter.
ScanImports(fs) ==
  LET found == {p \in DOMAIN fs.files :
                  /\ p.dir[1] = "imports"
                  /\ p.dir \in fs.dirs
                  /\ p.name[Len(p.name)] = "json"}
      rank(t) == CASE t = "aimtable" -> 1 [] t = "hierarchy" -> 2
                   [] t = "plannerbundle" -> 3
      less(p, q) ==
        \/ p.dir[2] < q.dir[2]
        \/ p.dir[2] = q.dir[2] /\ rank(p.name[1]) < rank(q.name[1])
  IN [n \in 1..Cardinality(found) |->
        CHOOSE p \in found : Cardinality({q \in found : less(q, p)}) = n - 1]

\* the merger is run: const files = listImportJsonFiles(importsRoot)
MergerScan ==
  /\ out' = ScanImports(inbox)
  /\ UNCHANGED <<files, i, pc, aimIds, microIds, refIssues, errors, aimsMap,
                 hierarchy, planners, report, merged, outRoot, dryRun,
                 strategy, now, run, exitCode, calls, stdout, disk, past,
                 tree, visited, doc, docKind, md, args, raw, inbox>>

NextImport ==
  \/ ImportTick
  \/ ImportHelp
  \/ ImportBadMode
  \/ ImportReadError
  \/ ImportInvalidJson
  \/ ImportNoType
  \/ ImportUnknownType
  \/ ImportInvalid
  \/ ImportCrash
  \/ ImportSave
  \/ MergerScan

SpecImport == InitImport /\ [][NextImport]_vars

(***************************************************************************)
(* Properties of the importer (SpecImport).                                *)
(***************************************************************************)
\* the step is a run of the importer
Imported == run' = run + 1

\* the type the claim speaks of: the one --type names or, without --type,
\* the one the version tag names
TagTypes ==
  [t \in {"aimtable.v1", "hierarchy.v1", "plannerbundle.v1"} |->
     CASE t = "aimtable.v1" -> "aimtable" [] t = "hierarchy.v1" -> "hierarchy"
       [] t = "plannerbundle.v1" -> "plannerbundle"]

Determined(a, r) ==
  IF a.type \notin {Undefined, Null} THEN {a.type} \cap ImportTypes
  ELSE IF r.json.object /\ r.json.version \in DOMAIN TagTypes
    THEN {TagTypes[r.json.version]}
  ELSE {}

\* the text read parsed, a type was determined and the document is valid
\* against that type's schema
Accepted(a, r) ==
  /\ r.read /\ r.ok /\ r.parses
  /\ \E t \in Determined(a, r) : t \in r.json.validFor

\* the three failures: not JSON, no type, not valid
Refused(a, r) ==
  /\ r.read /\ r.ok
  /\ \/ ~r.parses
     \/ Determined(a, r) = {}
     \/ \E t \in Determined(a, r) : t \notin r.json.validFor

\* the file holds a document that is valid against the schema its name names
ValidatedFile(fs, p) == p.name[1] \in fs.files[p].json.validFor

\* C23: a run of the importer changes the files on disk only after the text
\* parsed as JSON, a type was determined from --type or the version tag and
\* the document validated against that type's schema; a run that met a parse
\* failure, an undetermined type or a validation failure ends with a non-zero
\* exit code and leaves the disk as it was; and every file a scan of imports/
\* returns holds a document that was validated.
C23_DepositOnlyValidated ==
  [][/\ (Imported /\ inbox' # inbox) => Accepted(args', raw')
     /\ (Imported /\ Refused(args', raw')) => (exitCode' # 0 /\ inbox' = inbox)
     /\ \A n \in DOMAIN out' : ValidatedFile(inbox', out'[n])]_vars

\* the importer saved a document under imports/ in one run and refused
\* another in the next, and the scan of imports/ made since returns the one
\* that was saved
C23_Witness ==
  /\ Refused(args, raw)
  /\ exitCode # 0
  /\ run = 3
  /\ Len(out) = 1
  /\ DOMAIN inbox.files = {out[1]}
====
